---- MODULE Spec2Model ----
(***************************************************************************)
(* Model of the St. Vincent de Paul content-marketing crew:                *)
(*   src/crew.py                      the crew: 6 agents, 8 tasks,         *)
(*                                    Process.sequential                   *)
(*   src/facebook_publishing_tool.py  FacebookPublishingTool._run          *)
(*   src/squarespace_publishing_tool.py SquarespacePublishingTool._run     *)
(*   src/pinecone_storage_tool.py     PineconeStorageTool._run             *)
(*                                                                         *)
(* What an agent (an LLM) decides is not code: which of its tools it calls *)
(* in an iteration, with which arguments, and what text a task outputs are *)
(* nondeterministic choices.  What is code is modelled as written: the     *)
(* task list and its order, the sequential process, the tools each agent   *)
(* holds, max_iter, and every branch of the three tools' _run methods.     *)
(***************************************************************************)
EXTENDS Integers, Sequences, FiniteSets, TLC

VARIABLES
    env,          \* names of the environment variables that are set (os.getenv)
    crewState,    \* "created" | "running" | "completed"
    current,      \* index in Tasks of the task last started (0: none yet)
    taskRunning,  \* TRUE while task Tasks[current] executes
    iter,         \* tool calls made by the agent in the running task
    trace,        \* log of <<"start"|"finish", task>> events of the run
    verdict,      \* output of brand_compliance_review: "none"|"approved"|"rejected"
    decision,     \* output of send_approval_request:   "none"|"approved"|"rejected"
    call,         \* the tool invocation in progress (NoCall when none)
    attempts,     \* per publisher: invocations begun in this run
    published,    \* tools whose invocation returned a success result
    upserts,      \* content types for which the vector store POST was issued
    embed,        \* a call of _create_simple_embedding: its inputs and what it returned
    index         \* the vectors the vector store holds (server side)

vars == <<env, crewState, current, taskRunning, iter, trace, verdict, decision,
          call, attempts, published, upserts, embed, index>>

(***************************************************************************)
(* Bounds                                                                  *)
(***************************************************************************)
\* tool calls of one task explored by the model (the code allows max_iter)
MaxToolCalls == 2

\* store calls of the RecordPerformance task explored by the store specification
MaxStoreCalls == 3

\* longest text given to _create_simple_embedding
MaxTextLen == 2

\* largest dimension given to _create_simple_embedding
MaxDim == 45

\* Agent(max_iter=25): iterations of one agent in one task
max_iter == 25

(***************************************************************************)
(* The crew: tasks, agents and their tools                                 *)
(***************************************************************************)
\* self.tasks: the @task methods in their order of definition
Tasks ==
    << "retrieve_optimal_story_from_excel_database",
       "research_high_performance_content_patterns",
       "generate_facebook_content",
       "generate_blog_content",
       "brand_compliance_review",
       "send_approval_request",
       "publish_approved_content",
       "track_performance_and_store_in_pinecone" >>

NumTasks == Len(Tasks)

\* the agent that executes a task (the task configuration names it)
AgentOf(task) ==
    CASE task = "retrieve_optimal_story_from_excel_database" -> "story_database_manager"
      [] task = "research_high_performance_content_patterns" -> "performance_analytics_manager"
      [] task = "generate_facebook_content"                  -> "content_creator"
      [] task = "generate_blog_content"                      -> "content_creator"
      [] task = "brand_compliance_review"                    -> "brand_compliance_officer"
      [] task = "send_approval_request"                      -> "approval_manager"
      [] task = "publish_approved_content"                   -> "publishing_coordinator"
      [] task = "track_performance_and_store_in_pinecone"    -> "performance_analytics_manager"

ClientTools == {"facebook", "squarespace", "pinecone"}
Publishers  == {"facebook", "squarespace"}

\* the repository's own tools in an agent's tools=[...] list
ToolsOf(agent) ==
    CASE agent = "publishing_coordinator"        -> {"facebook", "squarespace"}
      [] agent = "performance_analytics_manager" -> {"pinecone"}
      [] OTHER                                   -> {}

\* whether the agent's tools=[...] list holds third-party tools as well
HasExternalTools(agent) ==
    agent \in {"story_database_manager", "content_creator", "approval_manager",
               "performance_analytics_manager"}

(***************************************************************************)
(* Configuration, arguments, HTTP outcomes and results                     *)
(***************************************************************************)
EnvVars ==
    {"FACEBOOK_PAGE_ACCESS_TKN", "FACEBOOK_PAGE_ID",
     "SQUARESPACE_API_KEY", "SQUARESPACE_SITE_ID",
     "PINECONE_API_KEY", "PINECONE_ENVIRONMENT", "PINECONE_INDEX_NAME"}

\* the configurations explored: all set, exactly one unset, none set
EnvChoices == {EnvVars, {}} \cup {EnvVars \ {v} : v \in EnvVars}

\* os.getenv(name) / os.getenv(name, ''): "" stands for unset (None or '')
Getenv(name) == IF name \in env THEN "env" ELSE ""

\* the arguments an agent passes; a field a tool does not take stays empty
FacebookArgs ==
    [page_access_token : {"", "tok"}, page_id : {"", "pid"},
     message : {"", " ", "text"}, content_type : {""},
     content_id : {""}, content_text : {<< >>}]
SquarespaceArgs ==
    [page_access_token : {""}, page_id : {""}, message : {"text"}, content_type : {""},
     content_id : {""}, content_text : {<< >>}]
PineconeArgs ==
    [page_access_token : {""}, page_id : {""}, message : {"text"},
     content_type : {"facebook_post", "blog_post", "tweet"},
     content_id : {"S1"}, content_text : {<< "a" >>}]

ArgsOf(tool) ==
    CASE tool = "facebook"    -> FacebookArgs
      [] tool = "squarespace" -> SquarespaceArgs
      [] tool = "pinecone"    -> PineconeArgs

NoArgs ==
    [page_access_token |-> "", page_id |-> "", message |-> "", content_type |-> "",
     content_id |-> "", content_text |-> << >>]

\* str.strip() on the message texts of the model
Strip(text) == IF text = " " THEN "" ELSE text

StatusCodes == {200, 201, 204, 400, 401, 403, 404, 429, 500}

\* response bodies:
\*   "object_full"         a JSON object holding every field the tools read, well typed:
\*                         {id, fullUrl, upsertedCount, message, error: {message}}
\*   "object_empty"        {}
\*   "object_error_scalar" {"error": "text"}: the error field is no object
\*   "non_object"          valid JSON that is no object, such as [] or "ok"
\*   "unparseable"         not JSON
Bodies == {"object_full", "object_empty", "object_error_scalar", "non_object", "unparseable"}

\* what requests.post can raise: Timeout, ConnectionError, ConnectTimeout (a subclass of
\* both), another RequestException, or any other exception
PostExceptions == {"Timeout", "ConnectionError", "ConnectTimeout", "RequestException", "Exception"}

Outcomes ==
    [exc : {"none"}, status : StatusCodes, body : Bodies]
    \cup [exc : PostExceptions, status : {0}, body : {"unparseable"}]

NoOutcome == [exc |-> "none", status |-> 0, body |-> "unparseable"]

\* exception classes: IsA(e, c) iff an exception of class e is caught by `except c`.
\* The error response.json() raises is requests' JSONDecodeError, which is both a
\* json.JSONDecodeError and a RequestException.
IsA(e, c) ==
    \/ e = c
    \/ c = "Exception"
    \/ c = "RequestException"
         /\ e \in {"Timeout", "ConnectionError", "ConnectTimeout", "JSONDecodeError"}
    \/ c = "Timeout" /\ e = "ConnectTimeout"
    \/ c = "ConnectionError" /\ e = "ConnectTimeout"

\* A result string, by what it says:
\*   kind   what the text reports
\*   id     post id in the text:  "body" (from the response), "Unknown", "" or "none"
\*   url    public URL in the text: "body" or "none"
\*   msg    the error text: "platform" (taken from the parsed body), "default" (the
\*          .get default or the fallback text), "raw" (response.text / reason),
\*          "fixed" (a constant sentence), "exception" (str(e)) or "none"
\*   hint   the text tells the caller to wait / try again later
\*   code   the text names the HTTP status code
Result(kind, id, url, msg, hint, code) ==
    [kind |-> kind, id |-> id, url |-> url, msg |-> msg, hint |-> hint, code |-> code]

NoResult == Result("none", "none", "none", "none", FALSE, FALSE)

\* the outcome of a block of statements: it returns a value or raises
Ret(value) == [raises |-> "none", value |-> value]
Raise(e)   == [raises |-> e, value |-> NoResult]

\* response.json(), then .get(...) on what it returned
JsonGet(body) ==
    CASE body = "unparseable" -> "JSONDecodeError"
      [] body = "non_object"  -> "AttributeError"
      [] OTHER                -> "none"

(***************************************************************************)
(* The except clauses that close each _run                                 *)
(***************************************************************************)
Handler(class, kind, msg, hint) == [class |-> class, kind |-> kind, msg |-> msg, hint |-> hint]

\* the first except clause, in source order, whose class catches e; an exception no
\* clause catches leaves _run
Except(handlers, e) ==
    LET catching == {i \in DOMAIN handlers : IsA(e, handlers[i].class)}
    IN  IF catching = {}
        THEN Raise(e)
        ELSE LET h == handlers[CHOOSE i \in catching : \A j \in catching : i <= j]
             IN  Ret(Result(h.kind, "none", "none", h.msg, h.hint, FALSE))

\* what _run hands to its caller: the value its body returned, or what its except
\* clauses make of the exception the body raised
Finish(handlers, r) == IF r.raises = "none" THEN r ELSE Except(handlers, r.raises)

(***************************************************************************)
(* FacebookPublishingTool._run                                             *)
(***************************************************************************)
\* page_access_token or os.getenv('FACEBOOK_PAGE_ACCESS_TKN', '')
FacebookAccessToken(args) ==
    IF args.page_access_token # "" THEN args.page_access_token
    ELSE Getenv("FACEBOOK_PAGE_ACCESS_TKN")

\* page_id or os.getenv('FACEBOOK_PAGE_ID', '')
FacebookPageId(args) ==
    IF args.page_id # "" THEN args.page_id ELSE Getenv("FACEBOOK_PAGE_ID")

\* the validation returns; NoResult when every check passes
FacebookValidation(args) ==
    IF FacebookAccessToken(args) = ""
    THEN Result("ValidationError", "none", "none", "access_token", FALSE, FALSE)
    ELSE IF FacebookPageId(args) = ""
    THEN Result("ValidationError", "none", "none", "page_id", FALSE, FALSE)
    ELSE IF args.message = "" \/ Strip(args.message) = ""
    THEN Result("ValidationError", "none", "none", "message", FALSE, FALSE)
    ELSE NoResult

\* error_data = response.json(); error_data.get('error', {}).get('message', default)
FacebookErrorMessage(kind, body) ==
    CASE body = "unparseable"  -> Ret(Result(kind, "none", "none", "default", FALSE, TRUE))
      [] body \in {"non_object", "object_error_scalar"} -> Raise("AttributeError")
      [] body = "object_full"  -> Ret(Result(kind, "none", "none", "platform", FALSE, TRUE))
      [] body = "object_empty" -> Ret(Result(kind, "none", "none", "default", FALSE, TRUE))

\* FacebookResponse with the 401 branch reading the platform's message, as the 400
\* branch does
FacebookResponse_parse401(status, body) ==
    CASE status = 200 ->
            ( CASE JsonGet(body) = "JSONDecodeError" ->
                      Ret(Result("Success", "none", "none", "none", FALSE, FALSE))
                [] JsonGet(body) = "AttributeError" -> Raise("AttributeError")
                [] OTHER ->
                      Ret(Result("Success", IF body = "object_full" THEN "body" ELSE "Unknown",
                                 "none", "none", FALSE, FALSE)) )
      [] status = 400 -> FacebookErrorMessage("BadRequest", body)
      [] status = 401 -> FacebookErrorMessage("InvalidAuth", body)
      [] status = 403 -> Ret(Result("InsufficientPermission", "none", "none", "fixed", FALSE, TRUE))
      [] status = 404 -> Ret(Result("NotFound", "none", "none", "fixed", FALSE, TRUE))
      [] status = 429 -> Ret(Result("RateLimited", "none", "none", "fixed", TRUE, TRUE))
      [] OTHER        -> FacebookErrorMessage("HttpError", body)

\* the if / elif chain over response.status_code
FacebookResponse(status, body) ==
    CASE status = 200 ->
            ( CASE JsonGet(body) = "JSONDecodeError" ->
                      Ret(Result("Success", "none", "none", "none", FALSE, FALSE))
                [] JsonGet(body) = "AttributeError" -> Raise("AttributeError")
                [] OTHER ->
                      Ret(Result("Success", IF body = "object_full" THEN "body" ELSE "Unknown",
                                 "none", "none", FALSE, FALSE)) )
      [] status = 400 -> FacebookErrorMessage("BadRequest", body)
      [] status = 401 -> Ret(Result("InvalidAuth", "none", "none", "fixed", FALSE, TRUE))
      [] status = 403 -> Ret(Result("InsufficientPermission", "none", "none", "fixed", FALSE, TRUE))
      [] status = 404 -> Ret(Result("NotFound", "none", "none", "fixed", FALSE, TRUE))
      [] status = 429 -> Ret(Result("RateLimited", "none", "none", "fixed", TRUE, TRUE))
      [] OTHER        -> FacebookErrorMessage("HttpError", body)

\* FacebookHandlers without the closing `except Exception`
FacebookHandlers_nocatchall ==
    << Handler("Timeout", "TimeoutError", "fixed", FALSE),
       Handler("ConnectionError", "ConnectionError", "fixed", FALSE),
       Handler("RequestException", "RequestError", "exception", FALSE) >>

FacebookHandlers ==
    << Handler("Timeout", "TimeoutError", "fixed", FALSE),
       Handler("ConnectionError", "ConnectionError", "fixed", FALSE),
       Handler("RequestException", "RequestError", "exception", FALSE),
       Handler("Exception", "UnexpectedError", "exception", FALSE) >>

(***************************************************************************)
(* SquarespacePublishingTool._run                                          *)
(***************************************************************************)
SquarespaceValidation(args) ==
    IF Getenv("SQUARESPACE_API_KEY") = ""
    THEN Result("ValidationError", "none", "none", "api_key", FALSE, FALSE)
    ELSE IF Getenv("SQUARESPACE_SITE_ID") = ""
    THEN Result("ValidationError", "none", "none", "site_id", FALSE, FALSE)
    ELSE NoResult

\* error_data = response.json(); error_data.get('message', default)
SquarespaceErrorMessage(kind, body, codeInText) ==
    CASE body = "unparseable"  -> Ret(Result(kind, "none", "none", "default", FALSE, TRUE))
      [] body = "non_object"   -> Raise("AttributeError")
      [] body = "object_full"  -> Ret(Result(kind, "none", "none", "platform", FALSE, codeInText))
      [] OTHER                 -> Ret(Result(kind, "none", "none", "default", FALSE, TRUE))

SquarespaceResponse(status, body) ==
    CASE status = 200 \/ status = 201 ->
            ( CASE JsonGet(body) = "JSONDecodeError" ->
                      Ret(Result("Success", "none", "none", "none", FALSE, TRUE))
                [] JsonGet(body) = "AttributeError" -> Raise("AttributeError")
                [] body = "object_full" ->
                      Ret(Result("Success", "body", "body", "none", FALSE, FALSE))
                [] OTHER ->
                      Ret(Result("Success", "", "none", "none", FALSE, FALSE)) )
      [] status = 400 -> SquarespaceErrorMessage("BadRequest", body, TRUE)
      [] status = 401 -> Ret(Result("InvalidAuth", "none", "none", "fixed", FALSE, FALSE))
      [] status = 403 -> Ret(Result("InsufficientPermission", "none", "none", "fixed", FALSE, FALSE))
      [] status = 404 -> Ret(Result("NotFound", "none", "none", "fixed", FALSE, FALSE))
      [] status = 429 -> Ret(Result("RateLimited", "none", "none", "fixed", TRUE, FALSE))
      [] OTHER        -> SquarespaceErrorMessage("HttpError", body, FALSE)

SquarespaceHandlers ==
    << Handler("Timeout", "TimeoutError", "fixed", TRUE),
       Handler("ConnectionError", "ConnectionError", "fixed", FALSE),
       Handler("RequestException", "RequestError", "exception", FALSE),
       Handler("Exception", "UnexpectedError", "exception", FALSE) >>

(***************************************************************************)
(* PineconeStorageTool._run                                                *)
(***************************************************************************)
PineconeContentTypes == {"facebook_post", "blog_post"}

\* PineconeValidation without the content_type check
PineconeValidation_noenum(args) ==
    IF \/ Getenv("PINECONE_API_KEY") = ""
       \/ Getenv("PINECONE_ENVIRONMENT") = ""
       \/ Getenv("PINECONE_INDEX_NAME") = ""
    THEN Result("ValidationError", "none", "none", "environment", FALSE, FALSE)
    ELSE NoResult

PineconeValidation(args) ==
    IF \/ Getenv("PINECONE_API_KEY") = ""
       \/ Getenv("PINECONE_ENVIRONMENT") = ""
       \/ Getenv("PINECONE_INDEX_NAME") = ""
    THEN Result("ValidationError", "none", "none", "environment", FALSE, FALSE)
    ELSE IF args.content_type \notin PineconeContentTypes
    THEN Result("ValidationError", "none", "none", "content_type", FALSE, FALSE)
    ELSE NoResult

\* PineconeResponse with a branch of its own for 429, as the publishers have
PineconeResponse_ratelimit(status, body) ==
    IF status = 200
    THEN IF JsonGet(body) # "none"
         THEN Raise(JsonGet(body))
         ELSE Ret(Result("Success", "none", "none", "none", FALSE, FALSE))
    ELSE IF status = 429
    THEN Ret(Result("RateLimited", "none", "none", "fixed", TRUE, TRUE))
    ELSE Ret(Result("ApiError", "none", "none",
                    IF body = "unparseable" THEN "raw" ELSE "platform", FALSE, TRUE))

\* if response.status_code == 200: ... else: ...
PineconeResponse(status, body) ==
    IF status = 200
    THEN IF JsonGet(body) # "none"
         THEN Raise(JsonGet(body))
         ELSE Ret(Result("Success", "none", "none", "none", FALSE, FALSE))
    ELSE Ret(Result("ApiError", "none", "none",
                    IF body = "unparseable" THEN "raw" ELSE "platform", FALSE, TRUE))

PineconeHandlers ==
    << Handler("Timeout", "TimeoutError", "fixed", TRUE),
       Handler("ConnectionError", "ConnectionError", "fixed", FALSE),
       Handler("RequestException", "RequestError", "exception", FALSE),
       Handler("Exception", "UnexpectedError", "exception", FALSE) >>

(***************************************************************************)
(* PineconeStorageTool._create_simple_embedding                            *)
(***************************************************************************)
\* the characters of the model's texts: two letters, an uppercase letter, a digit,
\* a space and the three punctuation marks the features count
Chars == {"a", "z", "A", "7", " ", ".", "!", "?"}

Letters ==
    << "a", "b", "c", "d", "e", "f", "g", "h", "i", "j", "k", "l", "m",
       "n", "o", "p", "q", "r", "s", "t", "u", "v", "w", "x", "y", "z" >>

Digits == << "0", "1", "2", "3", "4", "5", "6", "7", "8", "9" >>

\* def _create_simple_embedding(self, text, dimension: int = 384)
DefaultDimension == 384

\* a value that is no string, on which text.lower() raises
NotAString == << "None" >>

\* str.lower(), character by character
Lower(c) == IF c = "A" THEN "a" ELSE c

IsUpper(c) == c = "A"

\* text.lower().strip()
Normalize(text) ==
    LET low   == [i \in 1..Len(text) |-> Lower(text[i])]
        solid == {i \in 1..Len(low) : low[i] # " "}
    IN  IF solid = {} THEN << >>
        ELSE SubSeq(low, CHOOSE i \in solid : \A j \in solid : i <= j,
                         CHOOSE i \in solid : \A j \in solid : i >= j)

\* text.count(c); for a letter, a digit or a space also char_freq.get(c, 0)
Count(text, c) == Cardinality({i \in 1..Len(text) : text[i] = c})

\* len(text.split())
WordCount(text) ==
    Cardinality({i \in 1..Len(text) : text[i] # " " /\ (i = 1 \/ text[i - 1] = " ")})

\* a float of the features list, as the fraction n / d
Frac(n, d) == [n |-> n, d |-> d]

\* the 7 text features, the 26 letter frequencies and the 10 digit frequencies
Features(text) ==
    LET total == IF Len(text) > 0 THEN Len(text) ELSE 1
    IN  << Frac(Len(text), 1),
           Frac(WordCount(text), 1),
           Frac(Count(text, "."), 1),
           Frac(Count(text, "!"), 1),
           Frac(Count(text, "?"), 1),
           Frac(Cardinality({i \in 1..Len(text) : IsUpper(text[i])}), 1),
           Frac(Count(text, " "), 1) >>
        \o [i \in 1..Len(Letters) |-> Frac(Count(text, Letters[i]), total)]
        \o [i \in 1..Len(Digits) |-> Frac(Count(text, Digits[i]), total)]

\* while len(features) < dimension: features.append(0.0)
Pad(features, dimension) ==
    IF Len(features) < dimension
    THEN features \o [i \in 1..(dimension - Len(features)) |-> Frac(0, 1)]
    ELSE features

\* features[:dimension], for dimension >= 0
Truncate(features, dimension) ==
    IF dimension < Len(features) THEN SubSeq(features, 1, dimension) ELSE features

\* sum(x * x for x in ints), by halves
RECURSIVE SumSquares(_)
SumSquares(ints) ==
    IF Len(ints) = 0 THEN 0
    ELSE IF Len(ints) = 1 THEN ints[1] * ints[1]
    ELSE SumSquares(SubSeq(ints, 1, Len(ints) \div 2))
         + SumSquares(SubSeq(ints, Len(ints) \div 2 + 1, Len(ints)))

\* magnitude = sqrt(sum(x * x)); x / magnitude when magnitude > 0.  With every
\* fraction brought to the denominator `total`, component x is num / sqrt(sq),
\* which the record [num, sq] stands for; a vector of magnitude 0 is left as
\* it is, all zeros.
Unit(features, total) ==
    LET ints == [i \in 1..Len(features) |-> features[i].n * (total \div features[i].d)]
        sq   == SumSquares(ints)
    IN  [i \in 1..Len(features) |->
            IF sq > 0 THEN [num |-> ints[i], sq |-> sq] ELSE [num |-> 0, sq |-> 1]]

\* return [0.1] * dimension
Fallback(dimension) == [i \in 1..dimension |-> [num |-> 1, sq |-> 100]]

\* CreateSimpleEmbedding without the truncation features[:dimension]
CreateSimpleEmbedding_notruncate(text, dimension) ==
    IF text = NotAString
    THEN Fallback(dimension)
    ELSE LET t == Normalize(text)
         IN  Unit(Pad(Features(t), dimension), IF Len(t) > 0 THEN Len(t) ELSE 1)

\* the whole of _create_simple_embedding
CreateSimpleEmbedding(text, dimension) ==
    IF text = NotAString
    THEN Fallback(dimension)
    ELSE LET t == Normalize(text)
         IN  Unit(Truncate(Pad(Features(t), dimension), dimension),
                  IF Len(t) > 0 THEN Len(t) ELSE 1)

RECURSIVE TextsUpTo(_)
TextsUpTo(n) ==
    IF n = 0 THEN {<< >>}
    ELSE TextsUpTo(n - 1)
         \cup {Append(t, c) : t \in {u \in TextsUpTo(n - 1) : Len(u) = n - 1}, c \in Chars}

\* the inputs of the embedding calls explored
EmbedInputs ==
    [text : TextsUpTo(MaxTextLen) \cup {NotAString}, dimension : 0..MaxDim,
     done : {FALSE}, vector : {<< >>}]

NoEmbed == [text |-> << >>, dimension |-> 0, done |-> FALSE, vector |-> << >>]

\* one call of _create_simple_embedding(text, dimension)
EmbedCall ==
    /\ ~embed.done
    /\ embed' = [embed EXCEPT !.done = TRUE,
                              !.vector = CreateSimpleEmbedding(embed.text, embed.dimension)]
    /\ UNCHANGED <<index, env, crewState, current, taskRunning, iter, trace, verdict,
                   decision, call, attempts, published, upserts>>

(***************************************************************************)
(* The upsert request and the vector store behind it                       *)
(***************************************************************************)
\* content_text[:1000]
MaxStoredText == 1000

\* embedding = self._create_simple_embedding(content_text): kept as the call, the
\* text and the (default) dimension; its value is ValuesOf(embedding)
Embedding(content_text) == [text |-> content_text, dimension |-> DefaultDimension]

ValuesOf(embedding) == CreateSimpleEmbedding(embedding.text, embedding.dimension)

\* VectorData with the vector's id taken from the wrong argument
VectorData_idfromtype(args) ==
    [id       |-> args.content_type,
     values   |-> Embedding(args.content_text),
     metadata |-> [content_type |-> args.content_type,
                   content_text |-> Truncate(args.content_text, MaxStoredText),
                   text_length  |-> Len(args.content_text),
                   word_count   |-> WordCount(args.content_text)]]

\* vector_data['vectors'][0]: the one vector of the request body
VectorData(args) ==
    [id       |-> args.content_id,
     values   |-> Embedding(args.content_text),
     metadata |-> [content_type |-> args.content_type,
                   content_text |-> Truncate(args.content_text, MaxStoredText),
                   text_length  |-> Len(args.content_text),
                   word_count   |-> WordCount(args.content_text)]]

\* POST /vectors/upsert on the service: insert, or overwrite the vector of that id
ServerUpsert(vectors, vector) == {v \in vectors : v.id # vector.id} \cup {vector}

\* whether the service has applied the upsert when the client sees the outcome:
\* it has when it answers 2xx, it has not when it answers with an error status,
\* and either is possible when the client saw no response
ServerMayStore(tool, outcome) ==
    IF tool # "pinecone" THEN {FALSE}
    ELSE IF outcome.exc # "none" THEN {TRUE, FALSE}
    ELSE IF outcome.status \in {200, 201, 204} THEN {TRUE}
    ELSE {FALSE}

(***************************************************************************)
(* The three tools behind one interface                                    *)
(***************************************************************************)
Validation(tool, args) ==
    CASE tool = "facebook"    -> FacebookValidation(args)
      [] tool = "squarespace" -> SquarespaceValidation(args)
      [] tool = "pinecone"    -> PineconeValidation(args)

Valid(tool, args) == Validation(tool, args) = NoResult

Response(tool, status, body) ==
    CASE tool = "facebook"    -> FacebookResponse(status, body)
      [] tool = "squarespace" -> SquarespaceResponse(status, body)
      [] tool = "pinecone"    -> PineconeResponse(status, body)

Handlers(tool) ==
    CASE tool = "facebook"    -> FacebookHandlers
      [] tool = "squarespace" -> SquarespaceHandlers
      [] tool = "pinecone"    -> PineconeHandlers

\* the rest of _run once requests.post has returned a response or raised
AfterPost(tool, outcome) ==
    Finish(Handlers(tool),
           IF outcome.exc # "none" THEN Raise(outcome.exc)
           ELSE Response(tool, outcome.status, outcome.body))

(***************************************************************************)
(* One tool invocation, statement by statement                             *)
(***************************************************************************)
NoCall ==
    [tool |-> "none", at |-> "none", args |-> NoArgs, posts |-> 0,
     outcome |-> NoOutcome, result |-> NoResult, raised |-> "none"]

\* where _run goes after its validation checks: on to requests.post, or out by
\* one of the validation returns
AfterValidation(tool, args) == IF Valid(tool, args) THEN "post" ELSE "returned"

\* AfterOutcome with a retry loop: a 429 response sends the request again
AfterOutcome_retry429(tool, outcome) ==
    IF outcome.exc = "none" /\ outcome.status = 429 THEN "post" ELSE "returned"

\* where _run goes once requests.post has returned or raised: every branch of the
\* status chain and every except clause is a return; none loops back to the request
AfterOutcome(tool, outcome) == "returned"

\* an agent's iteration ends in a tool call (ToolUsage -> BaseTool._run)
AgentCallsTool(tool, args) ==
    /\ crewState = "running"
    /\ taskRunning
    /\ call = NoCall
    /\ iter < max_iter
    /\ iter < MaxToolCalls
    /\ tool \in ToolsOf(AgentOf(Tasks[current]))
    /\ args \in ArgsOf(tool)
    /\ call' = [NoCall EXCEPT !.tool = tool, !.at = "validate", !.args = args]
    /\ attempts' = IF tool \in Publishers THEN [attempts EXCEPT ![tool] = @ + 1]
                   ELSE attempts
    /\ iter' = iter + 1
    /\ UNCHANGED <<index, embed, env, crewState, current, taskRunning, trace, verdict, decision,
                   published, upserts>>

\* an agent's iteration ends in a call of one of its third-party tools
AgentCallsExternalTool ==
    /\ crewState = "running"
    /\ taskRunning
    /\ call = NoCall
    /\ iter < max_iter
    /\ iter < MaxToolCalls
    /\ HasExternalTools(AgentOf(Tasks[current]))
    /\ iter' = iter + 1
    /\ UNCHANGED <<index, embed, env, crewState, current, taskRunning, trace, verdict, decision,
                   call, attempts, published, upserts>>

\* the statements of _run up to the request: configuration lookup and validation
ToolValidate ==
    /\ call.at = "validate"
    /\ call' = [call EXCEPT !.at = AfterValidation(call.tool, call.args),
                            !.result = Validation(call.tool, call.args)]
    /\ UNCHANGED <<index, embed, env, crewState, current, taskRunning, iter, trace, verdict, decision,
                   attempts, published, upserts>>

\* requests.post(...) sends the request
ToolPost ==
    /\ call.at = "post"
    /\ call' = [call EXCEPT !.at = "awaiting", !.posts = @ + 1]
    /\ upserts' = IF call.tool = "pinecone"
                  THEN upserts \cup {call.args.content_type} ELSE upserts
    /\ UNCHANGED <<index, embed, env, crewState, current, taskRunning, iter, trace, verdict, decision,
                   attempts, published>>

\* requests.post(...) returns a response or raises, and _run maps it to its result;
\* `stored` says whether the vector store applied the upsert it was sent
ToolOutcome(outcome, stored) ==
    /\ call.at = "awaiting"
    /\ outcome \in Outcomes
    /\ stored \in ServerMayStore(call.tool, outcome)
    /\ call' = IF AfterOutcome(call.tool, outcome) = "returned"
               THEN [call EXCEPT !.at = "returned", !.outcome = outcome,
                                 !.result = AfterPost(call.tool, outcome).value,
                                 !.raised = AfterPost(call.tool, outcome).raises]
               ELSE [call EXCEPT !.at = AfterOutcome(call.tool, outcome)]
    /\ index' = IF stored THEN ServerUpsert(index, VectorData(call.args)) ELSE index
    /\ UNCHANGED <<embed, env, crewState, current, taskRunning, iter, trace, verdict,
                   decision, attempts, published, upserts>>

\* the agent reads the tool's result
ToolReturn ==
    /\ call.at = "returned"
    /\ call.raised = "none"
    /\ published' = IF call.tool \in Publishers /\ call.result.kind = "Success"
                    THEN published \cup {call.tool} ELSE published
    /\ call' = NoCall
    /\ UNCHANGED <<index, embed, env, crewState, current, taskRunning, iter, trace, verdict, decision,
                   attempts, upserts>>

(***************************************************************************)
(* Crew(agents, tasks, process=Process.sequential)                         *)
(***************************************************************************)

\* NextTask with a slip: the approval task is skipped after the compliance review
NextTask_skip(cur) == IF cur = 5 THEN 7 ELSE cur + 1

NextTask_again(cur) == IF cur = 7 THEN 7 ELSE cur + 1

\* the task the sequential process runs after task number cur
NextTask(cur) == cur + 1

\* crew().kickoff()
Kickoff ==
    /\ crewState = "created"
    /\ crewState' = "running"
    /\ UNCHANGED <<index, embed, env, current, taskRunning, iter, trace, verdict, decision,
                   call, attempts, published, upserts>>

\* the process hands the next task of the list to its agent
StartTask ==
    /\ crewState = "running"
    /\ ~taskRunning
    /\ NextTask(current) \in 1..NumTasks
    /\ current' = NextTask(current)
    /\ taskRunning' = TRUE
    /\ iter' = 0
    /\ trace' = Append(trace, <<"start", Tasks[NextTask(current)]>>)
    /\ UNCHANGED <<index, embed, env, crewState, verdict, decision, call, attempts, published, upserts>>

\* the agent gives its final answer, the task's output; what the compliance and
\* approval tasks say is the agent's text
FinishTask(approved) ==
    /\ crewState = "running"
    /\ taskRunning
    /\ call = NoCall
    /\ taskRunning' = FALSE
    /\ trace' = Append(trace, <<"finish", Tasks[current]>>)
    /\ verdict' = IF Tasks[current] = "brand_compliance_review"
                  THEN (IF approved THEN "approved" ELSE "rejected") ELSE verdict
    /\ decision' = IF Tasks[current] = "send_approval_request"
                   THEN (IF approved THEN "approved" ELSE "rejected") ELSE decision
    /\ UNCHANGED <<index, embed, env, crewState, current, iter, call, attempts, published, upserts>>

\* the last task of the list has finished: kickoff returns
Complete ==
    /\ crewState = "running"
    /\ ~taskRunning
    /\ NextTask(current) \notin 1..NumTasks
    /\ crewState' = "completed"
    /\ UNCHANGED <<index, embed, env, current, taskRunning, iter, trace, verdict, decision,
                   call, attempts, published, upserts>>

Init ==
    /\ env \in EnvChoices
    /\ crewState = "created"
    /\ current = 0
    /\ taskRunning = FALSE
    /\ iter = 0
    /\ trace = << >>
    /\ verdict = "none"
    /\ decision = "none"
    /\ call = NoCall
    /\ attempts = [t \in Publishers |-> 0]
    /\ published = {}
    /\ upserts = {}
    /\ embed = NoEmbed
    /\ index = {}

Next ==
    \/ Kickoff
    \/ StartTask
    \/ \E tool \in ClientTools : \E args \in ArgsOf(tool) : AgentCallsTool(tool, args)
    \/ AgentCallsExternalTool
    \/ ToolValidate
    \/ ToolPost
    \/ \E outcome \in Outcomes : \E stored \in BOOLEAN : ToolOutcome(outcome, stored)
    \/ ToolReturn
    \/ \E approved \in BOOLEAN : FinishTask(approved)
    \/ Complete

Spec == Init /\ [][Next]_vars

\* the run under its scheduling: the process is one thread that executes one
\* statement after the other, and every HTTP call returns or times out
\* (timeout=30), so a step that can be taken is taken
\* (explored from a fully configured and from an unconfigured environment)
LiveInit == Init /\ env \in {EnvVars, {}}

LiveSpec == LiveInit /\ [][Next]_vars /\ WF_vars(Next)

\* the embedding function on its own, applied to each input explored
EmbedInit ==
    /\ embed \in EmbedInputs
    /\ env = EnvVars
    /\ crewState = "created"
    /\ current = 0
    /\ taskRunning = FALSE
    /\ iter = 0
    /\ trace = << >>
    /\ verdict = "none"
    /\ decision = "none"
    /\ call = NoCall
    /\ attempts = [t \in Publishers |-> 0]
    /\ published = {}
    /\ upserts = {}
    /\ index = {}

EmbedNext == EmbedCall

EmbedSpec == EmbedInit /\ [][EmbedNext]_vars

(***************************************************************************)
(* The vector store client in the RecordPerformance task, with several     *)
(* content ids and texts                                                   *)
(***************************************************************************)
StoreArgs ==
    [page_access_token : {""}, page_id : {""}, message : {"text"},
     content_type : {"facebook_post", "blog_post"},
     content_id : {"S1", "S2"}, content_text : {<< "a" >>, << "z" >>}]

\* the agent of the RecordPerformance task calls store_performance_data
StoreCall(args) ==
    /\ crewState = "running"
    /\ taskRunning
    /\ call = NoCall
    /\ iter < max_iter
    /\ iter < MaxStoreCalls
    /\ "pinecone" \in ToolsOf(AgentOf(Tasks[current]))
    /\ args \in StoreArgs
    /\ call' = [NoCall EXCEPT !.tool = "pinecone", !.at = "validate", !.args = args]
    /\ iter' = iter + 1
    /\ UNCHANGED <<index, embed, env, crewState, current, taskRunning, trace, verdict,
                   decision, attempts, published, upserts>>

\* the run when its last task has just been started: every earlier task has
\* finished, approved, and no tool of the repository has been called
StoreInit ==
    /\ env \in {EnvVars, EnvVars \ {"PINECONE_API_KEY"}}
    /\ crewState = "running"
    /\ current = NumTasks
    /\ taskRunning = TRUE
    /\ iter = 0
    /\ trace = [i \in 1..(2 * NumTasks - 1) |->
                   IF i % 2 = 1 THEN <<"start", Tasks[(i + 1) \div 2]>>
                                ELSE <<"finish", Tasks[i \div 2]>>]
    /\ verdict = "approved"
    /\ decision = "approved"
    /\ call = NoCall
    /\ attempts = [t \in Publishers |-> 0]
    /\ published = {}
    /\ upserts = {}
    /\ embed = NoEmbed
    /\ index = {}

StoreNext ==
    \/ \E args \in StoreArgs : StoreCall(args)
    \/ ToolValidate
    \/ ToolPost
    \/ \E outcome \in Outcomes : \E stored \in BOOLEAN : ToolOutcome(outcome, stored)
    \/ ToolReturn
    \/ \E approved \in BOOLEAN : FinishTask(approved)
    \/ Complete

StoreSpec == StoreInit /\ [][StoreNext]_vars

(***************************************************************************)
(* Properties                                                              *)
(***************************************************************************)
Started(task) == \E i \in DOMAIN trace : trace[i] = <<"start", task>>

CurrentTask == IF current \in DOMAIN Tasks THEN Tasks[current] ELSE "none"

\* the tool invocation in progress has received an HTTP response
Responded ==
    /\ call.at = "returned"
    /\ call.posts > 0
    /\ call.outcome.exc = "none"

\* C1: the Publish stage has been started only if the compliance verdict and the
\* approval decision are both "approved".
C1_PublishOnlyIfApproved ==
    Started("publish_approved_content")
        => verdict = "approved" /\ decision = "approved"

\* C2: after a compliance rejection none of RequestApproval, Publish and
\* RecordPerformance is started, after an approval rejection none of Publish and
\* RecordPerformance, and a run with a rejection does not end as completed.
C2_RejectionHalts ==
    /\ verdict = "rejected"
          => /\ ~Started("send_approval_request")
             /\ ~Started("publish_approved_content")
             /\ ~Started("track_performance_and_store_in_pinecone")
    /\ decision = "rejected"
          => /\ ~Started("publish_approved_content")
             /\ ~Started("track_performance_and_store_in_pinecone")
    /\ (verdict = "rejected" \/ decision = "rejected") => crewState # "completed"

\* the platform a content type is published on
C3_PlatformOf(content_type) ==
    IF content_type = "facebook_post" THEN "facebook" ELSE "squarespace"

\* C3: when the vector store client issues its upsert for a content item in the
\* RecordPerformance stage, after a publish of that content was attempted, a
\* publish of that content has returned success (the claim's second sentence:
\* after a failed publish nothing is stored).
C3_StoreOnlyAfterSuccessfulPublish ==
    ( /\ CurrentTask = "track_performance_and_store_in_pinecone"
      /\ call.tool = "pinecone"
      /\ call.posts > 0
      /\ attempts[C3_PlatformOf(call.args.content_type)] > 0 )
        => C3_PlatformOf(call.args.content_type) \in published

\* the claim's stage order: Retrieve, Research, GenerateSocial, GenerateBlog,
\* ComplianceReview, RequestApproval, Publish, RecordPerformance
C4_StageOrder ==
    << "retrieve_optimal_story_from_excel_database",
       "research_high_performance_content_patterns",
       "generate_facebook_content",
       "generate_blog_content",
       "brand_compliance_review",
       "send_approval_request",
       "publish_approved_content",
       "track_performance_and_store_in_pinecone" >>

C4_Schedule ==
    [i \in 1..(2 * Len(C4_StageOrder)) |->
        IF i % 2 = 1 THEN <<"start", C4_StageOrder[(i + 1) \div 2]>>
                     ELSE <<"finish", C4_StageOrder[i \div 2]>>]

\* C4: the start and finish events of a run are a prefix of start(Retrieve),
\* finish(Retrieve), start(Research), ..., finish(RecordPerformance): the stages
\* start in the fixed order, each after the previous one has finished, one at a
\* time, none twice.
C4_StagesInFixedOrder ==
    /\ Len(trace) <= Len(C4_Schedule)
    /\ \A i \in DOMAIN trace : trace[i] = C4_Schedule[i]
    /\ taskRunning <=> (Len(trace) % 2 = 1)

C4_Witness ==
    /\ crewState = "completed"
    /\ Len(trace) = 2 * Len(C4_StageOrder)

\* C5: in one run neither publisher is invoked a second time.
C5_OnePublishAttemptPerPlatform ==
    \A tool \in Publishers : attempts[tool] <= 1

\* C6: one invocation of a client issues at most one HTTP POST; once the POST has
\* an outcome the invocation has returned, with that one request made.
C6_AtMostOnePostPerInvocation ==
    /\ call.posts <= 1
    /\ call.outcome # NoOutcome => call.at = "returned" /\ call.posts = 1

C6_Witness ==
    /\ Responded
    /\ call.outcome.status = 429
    /\ call.posts = 1

\* C7: an invocation that has ended has returned a result value; no exception
\* has left _run.
C7_NeverRaises ==
    call.at = "returned" => call.raised = "none" /\ call.result.kind # "none"

C7_Witness ==
    /\ call.at = "returned"
    /\ call.tool = "facebook"
    /\ call.outcome.exc = "Exception"
    /\ call.result.kind = "UnexpectedError"

\* the inputs the claim calls a validation failure
C8_Invalid ==
    CASE call.tool = "facebook" ->
            \/ call.args.page_access_token = "" /\ "FACEBOOK_PAGE_ACCESS_TKN" \notin env
            \/ call.args.page_id = "" /\ "FACEBOOK_PAGE_ID" \notin env
            \/ call.args.message \in {"", " "}
      [] call.tool = "squarespace" ->
            \/ "SQUARESPACE_API_KEY" \notin env
            \/ "SQUARESPACE_SITE_ID" \notin env
      [] call.tool = "pinecone" ->
            \/ "PINECONE_API_KEY" \notin env
            \/ "PINECONE_ENVIRONMENT" \notin env
            \/ "PINECONE_INDEX_NAME" \notin env
            \/ call.args.content_type \notin {"facebook_post", "blog_post"}
      [] OTHER -> FALSE

\* C8: an invocation whose inputs fail validation returns a validation-error
\* result and issues no HTTP POST.
C8_ValidationFailureMakesNoHttpCall ==
    (C8_Invalid /\ call.at # "validate")
        => /\ call.at = "returned"
           /\ call.result.kind = "ValidationError"
           /\ call.posts = 0

C8_Witness ==
    /\ call.tool = "pinecone"
    /\ call.at = "returned"
    /\ call.args.content_type = "tweet"
    /\ {"PINECONE_API_KEY", "PINECONE_ENVIRONMENT", "PINECONE_INDEX_NAME"} \subseteq env
    /\ call.posts = 0

\* the result kind the claim gives a status code
C9_KindOf(tool, status) ==
    CASE status = 200 -> "Success"
      [] status = 201 /\ tool = "squarespace" -> "Success"
      [] status = 400 -> "BadRequest"
      [] status = 401 -> "InvalidAuth"
      [] status = 403 -> "InsufficientPermission"
      [] status = 404 -> "NotFound"
      [] status = 429 -> "RateLimited"
      [] OTHER        -> "HttpError"

\* C9: for a publisher invocation that received a response, the result kind is
\* the one its status code alone determines, and a success carries the id (and,
\* for the CMS, the URL) of a response body that holds them.
C9_KindByStatusAlone ==
    (Responded /\ call.tool \in Publishers)
        => /\ call.result.kind = C9_KindOf(call.tool, call.outcome.status)
           /\ (call.result.kind = "Success" /\ call.outcome.body = "object_full")
                 => /\ call.result.id = "body"
                    /\ call.tool = "squarespace" => call.result.url = "body"

\* C10 as claimed: all three clients report 401 and 403 as an auth error, 404 as
\* not found and 429 as rate-limited with a wait-and-retry hint.
C10_UniformTaxonomy ==
    Responded
        => /\ call.outcome.status \in {401, 403}
                => call.result.kind \in {"InvalidAuth", "InsufficientPermission"}
           /\ call.outcome.status = 404 => call.result.kind = "NotFound"
           /\ call.outcome.status = 429
                => call.result.kind = "RateLimited" /\ call.result.hint

\* C10 as amended: the two publishers report 401 and 403 as auth errors, 404 as
\* not found and 429 as rate-limited with a wait-and-retry hint; the vector
\* store client reports every status other than 200, those four included, as one
\* generic API error that names the status code and gives no such hint.
C10_PublishersOnlyTaxonomy ==
    Responded
        => /\ call.tool \in Publishers
                => /\ call.outcome.status = 401 => call.result.kind = "InvalidAuth"
                   /\ call.outcome.status = 403
                        => call.result.kind = "InsufficientPermission"
                   /\ call.outcome.status = 404 => call.result.kind = "NotFound"
                   /\ call.outcome.status = 429
                        => call.result.kind = "RateLimited" /\ call.result.hint
           /\ (call.tool = "pinecone" /\ call.outcome.status # 200)
                => /\ call.result.kind = "ApiError"
                   /\ call.result.code
                   /\ ~call.result.hint

C10_Witness ==
    /\ Responded
    /\ call.tool = "pinecone"
    /\ call.outcome.status = 429
    /\ call.result.kind = "ApiError"

\* C11 as claimed: the social publisher's error result for 400, 401, 403, 404 and
\* 429 carries the platform's error.message when the body holds it.
C11_ErrorsCarryPlatformMessage ==
    ( /\ Responded
      /\ call.tool = "facebook"
      /\ call.outcome.status \in {400, 401, 403, 404, 429}
      /\ call.outcome.body = "object_full" )
        => call.result.msg = "platform"

\* C11 as amended: the social publisher's error result carries the platform's
\* error.message, when the body holds it, for status 400; for 401, 403, 404 and
\* 429 the result is a fixed sentence, whatever the body holds.
C11_OnlyBadRequestCarriesPlatformMessage ==
    (Responded /\ call.tool = "facebook")
        => /\ (call.outcome.status = 400 /\ call.outcome.body = "object_full")
                => call.result.kind = "BadRequest" /\ call.result.msg = "platform"
           /\ call.outcome.status \in {401, 403, 404, 429} => call.result.msg = "fixed"

C11_Witness ==
    /\ Responded
    /\ call.tool = "facebook"
    /\ call.outcome.status = 401
    /\ call.outcome.body = "object_full"
    /\ call.result.msg = "fixed"

\* C15: the vector store client reports success exactly when the response status
\* is 200, and reports every other status as an error that names the status code.
C15_SuccessIffStatus200 ==
    (Responded /\ call.tool = "pinecone")
        => /\ call.result.kind = "Success" <=> call.outcome.status = 200
           /\ call.outcome.status # 200
                => call.result.kind = "ApiError" /\ call.result.code

\* C13: a call of the embedding function returns a vector of exactly `dimension`
\* entries, for every text (the empty one included), every dimension from 0 up
\* (those below the 43 computed features included), and on the fallback path.
C13_EmbeddingHasLengthDimension ==
    embed.done => Len(embed.vector) = embed.dimension

C13_Witness ==
    /\ embed.done
    /\ embed.text = << >>
    /\ embed.dimension > 0
    /\ embed.dimension < Len(Features(<< >>))
    /\ Len(embed.vector) = embed.dimension

\* the vector v is the payload of a store call with these arguments
C12_IsPayloadOf(v, args) ==
    /\ v.id = args.content_id
    /\ ValuesOf(v.values) = CreateSimpleEmbedding(args.content_text, DefaultDimension)
    /\ v.metadata.content_type = args.content_type
    /\ v.metadata.content_text = args.content_text

\* a store call returns success
C12_StoreSucceeds ==
    /\ call.tool = "pinecone"
    /\ call.at = "awaiting"
    /\ call'.at = "returned"
    /\ call'.result.kind = "Success"

\* C12: when a store call succeeds, the store then holds one record per id, the
\* record of the call's content_id is the call's payload, the records of other
\* ids are as before (nothing appended, nothing merged), and a store that held
\* that payload already is unchanged.
C12_UpsertOverwrites ==
    [][ C12_StoreSucceeds
          => /\ \E v \in index' : C12_IsPayloadOf(v, call.args)
             /\ \A v, w \in index' : v.id = w.id => v = w
             /\ {v \in index' : v.id # call.args.content_id}
                   = {v \in index : v.id # call.args.content_id}
             /\ (\E v \in index : C12_IsPayloadOf(v, call.args)) => index' = index
      ]_vars

\* a third store call has succeeded and the store holds two records, the one of
\* S1 being that call's payload
C12_Witness ==
    /\ call.tool = "pinecone"
    /\ call.at = "returned"
    /\ call.result.kind = "Success"
    /\ iter = 3
    /\ call.args.content_id = "S1"
    /\ Cardinality(index) = 2
    /\ \E v \in index : C12_IsPayloadOf(v, call.args)

\* C14: every run eventually reaches a terminal state, completed or rejected, and
\* a task that is started is a later task of the list than any started before.
C14_RunTerminates ==
    /\ <>(crewState \in {"completed", "rejected"})
    /\ [][(taskRunning' /\ ~taskRunning) => current' > current]_vars

C14_Witness ==
    /\ crewState = "completed"
    /\ current = NumTasks
    /\ ~taskRunning

====
